---- MODULE Spec2Model ----
(***************************************************************************)
(* Model of App/drug_app.py: the module-level pipeline loading             *)
(* (lines 8-33), the prediction adapter predict_drug (lines 36-80) and the *)
(* launch of the interface (lines 127-141).                                *)
(*                                                                         *)
(* The serialized artifact, the skops loader and the estimator are the     *)
(* environment: the artifact is drawn in Init, the estimator's behaviour   *)
(* on a call is drawn by the action of that call.  Floats are carried in   *)
(* tenths (14.2 is 142); no arithmetic is done on them.                    *)
(***************************************************************************)
EXTENDS Integers, Sequences, FiniteSets, TLC

VARIABLES
    artifact,     \* the file Model/drug_pipeline.skops as found at startup
    pc,           \* position of the process: start, loaded, serving, crashed
    pipe,         \* the module-level name `pipe`
    loadError,    \* class of the exception the try block of lines 8-11 raised
    request,      \* arguments of the latest predict_drug call
    behaviour,    \* what the estimator did in the latest call
    invocations,  \* the batches handed to pipe.predict in the latest call
    outcome       \* how the latest predict_drug call ended

vars == <<artifact, pc, pipe, loadError, request, behaviour, invocations, outcome>>

-----------------------------------------------------------------------------
(* Bounds and input domains *)

MaxLen == 2       \* longest sequence an estimator returns

AgeMin == 15
AgeMax == 74
RatioMin == 62
RatioMax == 382

Ages == {14, 47}
Sexes == {"M", "F"}
BloodPressures == {"HIGH", "LOW", "NORMAL"}
Cholesterols == {"HIGH", "NORMAL"}
Ratios == {142, 400}

Labels == {"DrugY", "drugX"}

\* Object types an artifact may declare.
DefaultTrusted == {"sklearn.pipeline.Pipeline"}
Types == DefaultTrusted \cup {"os.system"}

\* Classes of the failures a loaded estimator raises; SystemExit derives
\* from BaseException only.
ExcClasses == {"AttributeError", "ValueError", "SystemExit"}
Messages == {"invalid input row", "estimator failure"}

IsException(cls) == cls \in {"AttributeError", "ValueError", "TypeError",
                             "IndexError", "NameError", "BadZipFile",
                             "UntrustedTypesFoundException",
                             "FileNotFoundError"}
IsAttributeError(cls) == cls = "AttributeError"

-----------------------------------------------------------------------------
(* The artifact and the loader *)

AbsentArtifact ==
    [present |-> FALSE, corrupt |-> FALSE, declared |-> {}, content |-> "None"]

Artifacts ==
    {AbsentArtifact}
    \cup {[present |-> TRUE, corrupt |-> TRUE, declared |-> {}, content |-> "None"]}
    \cup [present : {TRUE}, corrupt : {FALSE}, declared : SUBSET Types,
          content : {"Estimator", "None", "NoPredict"}]

Value(v) == [ok |-> TRUE, value |-> v, exc |-> "none"]
Raised(cls) == [ok |-> FALSE, value |-> "Unset", exc |-> cls]

\* sio.get_untrusted_types(file=...): the declared types skops does not
\* trust by default.
get_untrusted_types(a) == a.declared \ DefaultTrusted

\* sio.load(file, trusted=...): refuses an artifact that declares a type
\* that is neither trusted by default nor listed in `trusted`.
load(a, trusted) ==
    IF a.declared \subseteq (DefaultTrusted \cup trusted)
    THEN Value(a.content)
    ELSE Raised("UntrustedTypesFoundException")

\* The try block of lines 8-11.
TryLoad(a) ==
    IF ~a.present THEN Raised("FileNotFoundError")
    ELSE IF a.corrupt THEN Raised("BadZipFile")
    ELSE LET trusted_types == get_untrusted_types(a)
         IN  load(a, trusted_types)

NoRequest == [age |-> 0, sex |-> "", blood_pressure |-> "", cholesterol |-> "",
              na_to_k_ratio |-> 0]
NoBehaviour == [kind |-> "none", sized |-> FALSE, value |-> <<>>,
                exc |-> [cls |-> "none", msg |-> ""]]
NoOutcome == [kind |-> "none", value |-> "", exc |-> "none"]

Init ==
    /\ artifact \in Artifacts
    /\ pc = "start"
    /\ pipe = "Unset"
    /\ loadError = "none"
    /\ request = NoRequest
    /\ behaviour = NoBehaviour
    /\ invocations = <<>>
    /\ outcome = NoOutcome

\* Lines 10-11 succeed: pipe is whatever object the artifact holds.
LoadModel ==
    /\ pc = "start"
    /\ TryLoad(artifact).ok
    /\ pipe' = TryLoad(artifact).value
    /\ pc' = "loaded"
    /\ UNCHANGED <<artifact, loadError, request, behaviour, invocations, outcome>>

LoadFileNotFoundFatal ==
    /\ pc = "start"
    /\ ~TryLoad(artifact).ok
    /\ TryLoad(artifact).exc = "FileNotFoundError"
    /\ loadError' = "FileNotFoundError"
    /\ pc' = "crashed"
    /\ UNCHANGED <<artifact, pipe, request, behaviour, invocations, outcome>>

\* Lines 13-28: the file is missing, the DummyPipeline is installed.
LoadFileNotFound ==
    /\ pc = "start"
    /\ ~TryLoad(artifact).ok
    /\ TryLoad(artifact).exc = "FileNotFoundError"
    /\ pipe' = "DummyPipeline"
    /\ loadError' = "FileNotFoundError"
    /\ pc' = "loaded"
    /\ UNCHANGED <<artifact, request, behaviour, invocations, outcome>>

LoadOtherErrorFallback ==
    /\ pc = "start"
    /\ ~TryLoad(artifact).ok
    /\ TryLoad(artifact).exc # "FileNotFoundError"
    /\ pipe' = "DummyPipeline"
    /\ loadError' = TryLoad(artifact).exc
    /\ pc' = "loaded"
    /\ UNCHANGED <<artifact, request, behaviour, invocations, outcome>>

\* Lines 30-33: any other exception is printed and re-raised.
LoadOtherError ==
    /\ pc = "start"
    /\ ~TryLoad(artifact).ok
    /\ TryLoad(artifact).exc # "FileNotFoundError"
    /\ IsException(TryLoad(artifact).exc)
    /\ loadError' = TryLoad(artifact).exc
    /\ pc' = "crashed"
    /\ UNCHANGED <<artifact, pipe, request, behaviour, invocations, outcome>>

-----------------------------------------------------------------------------
(* The estimator *)

NoExc == [cls |-> "none", msg |-> ""]

\* What evaluating `pipe.predict(input_data)` can do: return a sized
\* sequence of labels, return an object without a length, or raise.
Returns(seq) == [kind |-> "returns", sized |-> TRUE, value |-> seq, exc |-> NoExc]
ReturnsUnsized == [kind |-> "returns", sized |-> FALSE, value |-> <<>>, exc |-> NoExc]
Throws(e) == [kind |-> "raises", sized |-> FALSE, value |-> <<>>, exc |-> e]

SeqsUpTo(S, n) == UNION {[1..k -> S] : k \in 0..n}

\* A failure: its class and its description, the text str(e) that the
\* f-strings of lines 74, 78 and 80 render.
Failures == [cls : ExcClasses, msg : Messages]

\* The loaded estimator is opaque: any of these on any call.
EstimatorBehaviours ==
    {Returns(s) : s \in SeqsUpTo(Labels, MaxLen)}
    \cup {ReturnsUnsized}
    \cup {Throws(e) : e \in Failures}

HasPredict(p) == p \in {"DummyPipeline", "Estimator"}

Repeat(x, n) == [i \in 1..n |-> x]

\* DummyPipeline.predict: ["DrugY"] * len(data).
DummyPredict(data) == Repeat("DrugY", Len(data))

\* The evaluation of `pipe.predict(input_data)` at line 61; `beh` is the
\* behaviour of a loaded estimator on this call.
PredictResult(p, input_data, beh) ==
    IF p = "Unset"
    THEN Throws([cls |-> "NameError", msg |-> "name pipe is not defined"])
    ELSE IF ~HasPredict(p)
    THEN Throws([cls |-> "AttributeError",
                 msg |-> "object has no attribute 'predict'"])
    ELSE IF p = "DummyPipeline" THEN Returns(DummyPredict(input_data))
    ELSE beh

\* The batches pipe.predict is called with during one predict_drug call.
PredictCalls(p, input_data) == IF HasPredict(p) THEN <<input_data>> ELSE <<>>

-----------------------------------------------------------------------------
(* predict_drug *)

Return(s) == [kind |-> "return", value |-> s, exc |-> "none"]
Propagate(cls) == [kind |-> "raise", value |-> "", exc |-> cls]

FeaturesSwapped(age, sex, blood_pressure, cholesterol, na_to_k_ratio) ==
    <<age, sex, cholesterol, blood_pressure, na_to_k_ratio>>

\* Line 53.
Features(age, sex, blood_pressure, cholesterol, na_to_k_ratio) ==
    <<age, sex, blood_pressure, cholesterol, na_to_k_ratio>>

\* Line 58.
InputData(features) == <<features>>

ExceptExceptionReraise(e) == Propagate(e.cls)

\* Lines 76-80: except Exception.
ExceptException(e) ==
    Return("Prediction Error: " \o e.msg \o ". Please check input values.")

ExceptAttributeErrorGeneric(e) == ExceptException(e)

\* Lines 72-75: except AttributeError.
ExceptAttributeError(e) ==
    Return("Error: Model pipeline not loaded correctly.")

\* The except clauses of lines 72-80, tried in order; an exception that is
\* no Exception matches neither and leaves predict_drug.
Handle(e) ==
    IF IsAttributeError(e.cls) THEN ExceptAttributeError(e)
    ELSE IF IsException(e.cls) THEN ExceptException(e)
    ELSE Propagate(e.cls)

IndexError == [cls |-> "IndexError", msg |-> "list index out of range"]
NoLenError == [cls |-> "TypeError", msg |-> "object of type 'NoneType' has no len()"]

FormatResultLast(predicted_drug_array) ==
    IF Len(predicted_drug_array) > 0
    THEN Return("Predicted Drug: " \o predicted_drug_array[Len(predicted_drug_array)])
    ELSE Return("Error: Prediction returned an empty result.")

FormatResultNoEmptyCheck(predicted_drug_array) ==
    IF Len(predicted_drug_array) > 0
    THEN Return("Predicted Drug: " \o predicted_drug_array[1])
    ELSE Handle(IndexError)

\* Lines 64-69.
FormatResult(predicted_drug_array) ==
    IF Len(predicted_drug_array) > 0
    THEN Return("Predicted Drug: " \o predicted_drug_array[1])
    ELSE Return("Error: Prediction returned an empty result.")

\* Lines 51-80, given what line 61 evaluated to.
predict_drug(predicted) ==
    IF predicted.kind = "raises" THEN Handle(predicted.exc)
    ELSE IF ~predicted.sized THEN Handle(NoLenError)
    ELSE FormatResult(predicted.value)

\* One call of predict_drug by the launched interface (fn=predict_drug,
\* line 129).
Call ==
    /\ pc = "serving"
    /\ \E age \in Ages, sex \in Sexes, blood_pressure \in BloodPressures,
          cholesterol \in Cholesterols, na_to_k_ratio \in Ratios,
          beh \in (IF pipe = "Estimator" THEN EstimatorBehaviours ELSE {Returns(<<>>)}) :
        LET features == Features(age, sex, blood_pressure, cholesterol, na_to_k_ratio)
            input_data == InputData(features)
            predicted == PredictResult(pipe, input_data, beh)
        IN  /\ request' = [age |-> age, sex |-> sex,
                           blood_pressure |-> blood_pressure,
                           cholesterol |-> cholesterol,
                           na_to_k_ratio |-> na_to_k_ratio]
            /\ behaviour' = predicted
            /\ invocations' = PredictCalls(pipe, input_data)
            /\ outcome' = predict_drug(predicted)

PredictDrugReloading ==
    /\ Call
    /\ pipe' = IF outcome'.kind = "return" /\ outcome'.value = "Predicted Drug: DrugY"
               THEN pipe ELSE "DummyPipeline"
    /\ UNCHANGED <<artifact, pc, loadError>>

PredictDrug ==
    /\ Call
    /\ UNCHANGED <<artifact, pc, pipe, loadError>>

\* Lines 127-141: gr.Interface(...) and iface.launch().
Launch ==
    /\ pc = "loaded"
    /\ pc' = "serving"
    /\ UNCHANGED <<artifact, pipe, loadError, request, behaviour, invocations, outcome>>

Next == LoadModel \/ LoadFileNotFound \/ LoadOtherError \/ Launch \/ PredictDrug

Spec == Init /\ [][Next]_vars

-----------------------------------------------------------------------------
(* Properties *)

\* A predict_drug call has ended.
Called == outcome.kind # "none"

\* The slider ranges of lines 88 and 92.
InRange(r) ==
    /\ r.age >= AgeMin /\ r.age <= AgeMax
    /\ r.na_to_k_ratio >= RatioMin /\ r.na_to_k_ratio <= RatioMax

\* What line 61 evaluated to is something predict_drug turns into a string:
\* a return, or a failure whose class derives from Exception.
Catchable(b) == b.kind = "raises" => IsException(b.exc.cls)

C2_OtherFailureIsPredictionError ==
    (Called /\ pipe = "Estimator" /\ behaviour.kind = "raises" /\ Catchable(behaviour))
        => outcome = Return("Prediction Error: " \o behaviour.exc.msg
                            \o ". Please check input values.")

\* C3: when pipe is None or an object without predict, predict_drug returns
\* exactly "Error: Model pipeline not loaded correctly." for every input.
C3_NoPredictCapability ==
    (Called /\ ~HasPredict(pipe))
        => outcome = Return("Error: Model pipeline not loaded correctly.")

C3_Witness ==
    /\ Called
    /\ pipe = "None"
    /\ ~InRange(request)
    /\ invocations = <<>>

\* C4: with the artifact file absent, startup is not fatal, the
\* DummyPipeline is installed, and every call, out-of-range inputs
\* included, returns exactly "Predicted Drug: DrugY".
C4_AbsentArtifactGivesDrugY ==
    (~artifact.present /\ pc # "start")
        => /\ pipe = "DummyPipeline"
           /\ pc \in {"loaded", "serving"}
           /\ Called => outcome = Return("Predicted Drug: DrugY")

C4_Witness ==
    /\ ~artifact.present
    /\ Called
    /\ request.na_to_k_ratio > RatioMax
    /\ request.age < AgeMin

\* C5: when loading fails with anything but file-not-found, startup is
\* fatal: pipe stays unset, no stand-in is installed, the interface is
\* never launched and predict_drug never serves a call.
C5_OtherLoadErrorIsFatal ==
    (~TryLoad(artifact).ok /\ TryLoad(artifact).exc # "FileNotFoundError")
        => /\ pipe = "Unset"
           /\ pc \in {"start", "crashed"}
           /\ ~Called

C5_Witness ==
    /\ artifact.present
    /\ artifact.corrupt
    /\ pc = "crashed"
    /\ loadError = "BadZipFile"

\* C6: an artifact that declares a type outside the set the loader accepts
\* on its own account (the source names no allow-list, so that set is what
\* is trusted by default) is never loaded as the estimator.
C6_UntrustedTypeNeverLoaded ==
    (pc \in {"loaded", "serving"} /\ loadError = "none")
        => artifact.declared \subseteq DefaultTrusted

\* C7: once startup has set pipe, no step reassigns it, and a predict_drug
\* call writes nothing but its own result: pipe, the artifact and the
\* recorded load error are as the loader left them.
C7_PipeNeverReassigned ==
    [][pc # "start" => (pipe' = pipe /\ artifact' = artifact /\ loadError' = loadError)]_vars

C7_Witness ==
    /\ Called
    /\ pipe = "Estimator"
    /\ outcome.kind = "raise"

\* C8: when predict returns a non-empty sequence, predict_drug returns
\* "Predicted Drug: " followed by its first element, whatever follows it.
C8_FirstLabel ==
    (Called /\ behaviour.kind = "returns" /\ behaviour.sized /\ Len(behaviour.value) > 0)
        => outcome = Return("Predicted Drug: " \o behaviour.value[1])

C8_Witness ==
    /\ Called
    /\ behaviour.kind = "returns"
    /\ behaviour.value = <<"drugX", "DrugY">>
    /\ outcome = Return("Predicted Drug: drugX")

\* C9: when predict returns an empty sequence, predict_drug returns exactly
\* "Error: Prediction returned an empty result.".
C9_EmptyResult ==
    (Called /\ behaviour.kind = "returns" /\ behaviour.sized /\ Len(behaviour.value) = 0)
        => outcome = Return("Error: Prediction returned an empty result.")

C9_Witness ==
    /\ Called
    /\ pipe = "Estimator"
    /\ behaviour = Returns(<<>>)
    /\ outcome.kind = "return"

\* C10: a predict_drug call invokes pipe.predict at most once, with a batch
\* of one row holding age, sex, blood_pressure, cholesterol, na_to_k_ratio
\* in that order and unchanged, and never again on any outcome.
C10_SingleInvocation ==
    Called =>
        /\ Len(invocations) <= 1
        /\ \A i \in 1..Len(invocations) :
              invocations[i] = << <<request.age, request.sex, request.blood_pressure,
                                    request.cholesterol, request.na_to_k_ratio>> >>

C10_Witness ==
    /\ Called
    /\ Len(invocations) = 1
    /\ ~InRange(request)
    /\ request.blood_pressure = "LOW"
    /\ behaviour.kind = "raises"
    /\ outcome.kind = "raise"
====
